---------------------------- MODULE Spec2Model ----------------------------
(***************************************************************************)
(* Model of the multi-server MCP client (src/client.py): the MCPClient     *)
(* object, its registry of ServerConnection objects and the processing of  *)
(* one query, driven by a sequential caller, and of the program around it  *)
(* (src/main.py and MCPClient.chat_loop).  The tool servers, the model API *)
(* and the user are the environment: what they answer or type is drawn     *)
(* from small sets, and each external call may fail.                       *)
(***************************************************************************)
EXTENDS Naturals, Sequences, FiniteSets, TLC

(***************************************************************************)
(* Bounds of the model.                                                    *)
(***************************************************************************)
\* transports the environment lets the client spawn in one run
MaxTransports == 3
\* content blocks in one model response
MaxBlocks == 2
\* command-line arguments after the program name
MaxArgs == 4

(***************************************************************************)
(* Values.                                                                 *)
(***************************************************************************)
\* Python's None (Optional[str] fields)
None == "<None>"

ServerIds == {"calc", "web"}

\* script paths, as character sequences, so that endswith() is computed
ScriptPaths ==
    { <<"s", ".", "p", "y">>, <<"s", ".", "j", "s">>, <<"s", ".", "s", "h">> }

ToolAdd == [name |-> "add", description |-> "Add two numbers", inputSchema |-> "{a, b}"]

ToolX == [name |-> "x", description |-> "Do x", inputSchema |-> "{a, b}"]

\* what a server may answer to list_tools
ToolLists == { <<ToolAdd>>, <<ToolX>>, <<ToolX, ToolAdd>> }

\* the tool names the model may ask for
ToolNames == {"add", "x"}

\* the structured arguments of a tool request
ToolInputs == { [a |-> 2, b |-> 3] }

\* what a server may answer to call_tool (result.content)
ToolResults == {"5", "7"}

\* text fragments the model may emit
Texts == {"The result is 5", "ok"}

Queries == {"What is 2 + 3?"}

(***************************************************************************)
(* The state.                                                              *)
(***************************************************************************)
VARIABLES
    servers,            \* self.servers: the dict, as its items in insertion order
    current_server_id,  \* self.current_server_id
    exit_stack,         \* self.exit_stack: the contexts entered and not yet exited
    stdio,              \* self.stdio / self.write: the transport last opened
    session,            \* self.session: the session last entered
    spawned,            \* number of transports opened so far (environment)
    out,                \* return value / printed status of the last operation
    pc,                 \* position of process_query: idle, catalog, blocks, done, raised
    messages,           \* process_query: messages
    all_tools,          \* process_query: all_tools
    server_tool_map,    \* process_query: server_tool_map
    cat_i,              \* process_query: position of the loop over self.servers.items()
    response,           \* process_query: response (the model response last received)
    blocks,             \* process_query: the content list the for loop iterates
    blk_i,              \* process_query: position of the for loop over the blocks
    final_text,         \* process_query: final_text
    assistant_message_content, \* process_query: assistant_message_content
    sent,               \* the message histories sent to the model in this query
    calls,              \* the calls made on server sessions in this query
    main_pc,            \* position of main(): start, connect, loop, finally, exited
    argv,               \* sys.argv
    arg_i,              \* main: i of the loop over range(1, len(sys.argv), 2)
    attempted,          \* the server ids main has called connect_to_server with
    ending,             \* how the program left main()'s try block, and its exit code
    released            \* the transports the environment has seen closed

client == <<servers, current_server_id, exit_stack, stdio, session, spawned>>

locals == <<messages, all_tools, server_tool_map, cat_i, response, blocks, blk_i,
            final_text, assistant_message_content, sent, calls>>

prog == <<main_pc, argv, arg_i, attempted, ending, released>>

vars == <<servers, current_server_id, exit_stack, stdio, session, spawned, out, pc,
          messages, all_tools, server_tool_map, cat_i, response, blocks, blk_i,
          final_text, assistant_message_content, sent, calls,
          main_pc, argv, arg_i, attempted, ending, released>>

(***************************************************************************)
(* Helpers over the registry.                                              *)
(***************************************************************************)
\* the keys of self.servers
Keys(srv) == { srv[i].server_id : i \in 1..Len(srv) }

\* position of a key in the dict's order
IndexOf(srv, sid) == CHOOSE i \in 1..Len(srv) : srv[i].server_id = sid

\* del self.servers[server_id]: the other items keep their order
DictDel(srv, sid) ==
    LET i == IndexOf(srv, sid)
    IN  SubSeq(srv, 1, i - 1) \o SubSeq(srv, i + 1, Len(srv))

\* the transports held open by the exit stack
OpenTransports == { exit_stack[i].h : i \in { j \in 1..Len(exit_stack) :
                                               exit_stack[j].ctx = "stdio_client" } }

\* the transports of the connections stored in the registry
EntryTransports(srv) == { srv[i].session : i \in 1..Len(srv) }

\* str.endswith
EndsWith(s, suffix) ==
    /\ Len(s) >= Len(suffix)
    /\ SubSeq(s, Len(s) - Len(suffix) + 1, Len(s)) = suffix

\* variant: the entry check of process_query lets every value pass
Falsy_never(v) == FALSE

\* Python truthiness of an Optional[str]: None and "" are falsy

Falsy(v) == v = None \/ v = ""

\* the names of a tool list
ToolNamesOf(tools) == [i \in 1..Len(tools) |-> tools[i].name]

NoLocals ==
    /\ messages = <<>>
    /\ all_tools = <<>>
    /\ server_tool_map = <<>>
    /\ cat_i = 0
    /\ response = <<>>
    /\ blocks = <<>>
    /\ blk_i = 0
    /\ final_text = <<>>
    /\ assistant_message_content = <<>>
    /\ sent = <<>>
    /\ calls = <<>>

Init ==
    /\ servers = <<>>
    /\ current_server_id = None
    /\ exit_stack = <<>>
    /\ stdio = 0
    /\ session = 0
    /\ spawned = 0
    /\ out = [op |-> "init", server_id |-> None, ret |-> "None", printed |-> <<>>]
    /\ pc = "idle"
    /\ NoLocals

(***************************************************************************)
(* MCPClient.connect_to_server.  fail_at names the external call that      *)
(* raises, "none" when every call returns; tools is what the server        *)
(* answers to the initial list_tools.                                      *)
(***************************************************************************)
\* variant: the check for an existing id never finds it
AlreadyConnected_never(server_id) == FALSE

\* if server_id in self.servers

AlreadyConnected(server_id) == server_id \in Keys(servers)

ConnectSteps == {"stdio_client", "initialize", "list_tools", "none"}

\* the outcomes of the external calls of one connect
ConnectOutcomes ==
    { [fail_at |-> f, tools |-> <<>>] : f \in ConnectSteps \ {"none"} }
    \cup { [fail_at |-> "none", tools |-> tl] : tl \in ToolLists }

connect_to_server(server_id, server_script_path, fail_at, tools) ==
    /\ pc = "idle"
    /\ IF AlreadyConnected(server_id)
       THEN /\ out' = [op |-> "connect", server_id |-> server_id, ret |-> "None",
                       printed |-> <<"already exists">>]
            /\ UNCHANGED <<client, locals, pc>>
       ELSE IF ~(EndsWith(server_script_path, <<".", "p", "y">>)
                 \/ EndsWith(server_script_path, <<".", "j", "s">>))
       THEN /\ out' = [op |-> "connect", server_id |-> server_id,
                       ret |-> "raise ValueError", printed |-> <<>>]
            /\ UNCHANGED <<client, locals, pc>>
       ELSE IF fail_at = "stdio_client"
       THEN /\ out' = [op |-> "connect", server_id |-> server_id,
                       ret |-> "raise TransportError", printed |-> <<>>]
            /\ UNCHANGED <<client, locals, pc>>
       ELSE LET h == spawned + 1
                stack2 == exit_stack \o << [ctx |-> "stdio_client", h |-> h],
                                          [ctx |-> "ClientSession", h |-> h] >>
                failed == fail_at = "list_tools"
                conn == [server_id |-> server_id, session |-> h,
                         tools |-> IF failed THEN <<>> ELSE tools]
            IN  /\ spawned < MaxTransports
                /\ spawned' = h
                /\ stdio' = h
                /\ UNCHANGED <<locals, pc>>
                /\ IF fail_at = "initialize"
                   THEN /\ exit_stack' = stack2
                        /\ session' = h
                        /\ out' = [op |-> "connect", server_id |-> server_id,
                                   ret |-> "raise TransportError", printed |-> <<>>]
                        /\ UNCHANGED <<servers, current_server_id>>
                   ELSE /\ exit_stack' = stack2
                        /\ session' = h
                        /\ servers' = Append(servers, conn)
                        /\ current_server_id' =
                               IF current_server_id = None THEN server_id
                               ELSE current_server_id
                        /\ out' = [op |-> "connect", server_id |-> server_id,
                                   ret |-> IF failed THEN "raise TransportError"
                                           ELSE "None",
                                   printed |-> IF failed THEN <<>>
                                               ELSE <<"Connected", ToolNamesOf(tools)>>]

(***************************************************************************)
(* MCPClient.switch_server                                                 *)
(***************************************************************************)
switch_server(server_id) ==
    /\ pc = "idle"
    /\ IF server_id \in Keys(servers)
       THEN /\ current_server_id' = server_id
            /\ out' = [op |-> "switch", server_id |-> server_id, ret |-> "True",
                       printed |-> <<"Switched">>]
       ELSE /\ UNCHANGED current_server_id
            /\ out' = [op |-> "switch", server_id |-> server_id, ret |-> "False",
                       printed |-> <<"not found">>]
    /\ UNCHANGED <<servers, exit_stack, stdio, session, spawned, locals, pc>>

(***************************************************************************)
(* MCPClient.list_servers                                                  *)
(***************************************************************************)
Listing(srv, cur) ==
    [i \in 1..Len(srv) |->
        [server_id |-> srv[i].server_id,
         status |-> IF srv[i].server_id = cur THEN "ACTIVE" ELSE "CONNECTED",
         tool_names |-> ToolNamesOf(srv[i].tools)]]

list_servers ==
    /\ pc = "idle"
    /\ out' = [op |-> "list", server_id |-> None, ret |-> "None",
               printed |-> IF servers = <<>> THEN <<"No servers connected">>
                           ELSE Listing(servers, current_server_id)]
    /\ UNCHANGED <<client, locals, pc>>

(***************************************************************************)
(* MCPClient.disconnected_server                                           *)
(***************************************************************************)
\* variant: the current id is kept when its entry is deleted
CurrentAfterDisconnect_stale(rest, server_id, cur) == cur

\* variant: no remaining entry is made current
CurrentAfterDisconnect_none(rest, server_id, cur) ==
    IF server_id = cur THEN None ELSE cur

\* self.current_server_id after the entry of server_id was deleted, rest being
\* the remaining items

CurrentAfterDisconnect(rest, server_id, cur) ==
    IF server_id = cur
    THEN IF rest # <<>> THEN rest[1].server_id ELSE None
    ELSE cur

disconnected_server(server_id) ==
    /\ pc = "idle"
    /\ IF server_id \notin Keys(servers)
       THEN /\ out' = [op |-> "disconnect", server_id |-> server_id, ret |-> "False",
                       printed |-> <<"not found">>]
            /\ UNCHANGED <<servers, current_server_id>>
       ELSE LET rest == DictDel(servers, server_id)
            IN  /\ servers' = rest
                /\ current_server_id' =
                       CurrentAfterDisconnect(rest, server_id, current_server_id)
                /\ out' = [op |-> "disconnect", server_id |-> server_id,
                           ret |-> "True", printed |-> <<"Disconnected">>]
    /\ UNCHANGED <<exit_stack, stdio, session, spawned, locals, pc>>

(***************************************************************************)
(* The model API and the tool servers, as process_query sees them.         *)
(***************************************************************************)
\* all sequences over S of length at most n
SeqsUpTo(S, n) == UNION { [1..m -> S] : m \in 0..n }

\* a content block before the API gives it a correlation id
BlockShapes ==
    { [type |-> "text", text |-> t] : t \in Texts }
    \cup { [type |-> "tool_use", name |-> n, input |-> a] : n \in ToolNames, a \in ToolInputs }

\* the correlation id of block k of the r-th model response of a query
CorrId(r, k) == "toolu_" \o ToString(r) \o "_" \o ToString(k)

\* the r-th response of a query: the blocks, each tool_use with its own id
WithIds(shape, r) ==
    [k \in 1..Len(shape) |->
        IF shape[k].type = "tool_use"
        THEN [type |-> "tool_use", name |-> shape[k].name, input |-> shape[k].input,
              id |-> CorrId(r, k)]
        ELSE shape[k]]

\* response.content of the r-th model call
Responses(r) == { WithIds(shape, r) : shape \in SeqsUpTo(BlockShapes, MaxBlocks) }

\* str(dict) of a tool request's arguments
PyRepr(d) == "{'a': " \o ToString(d.a) \o ", 'b': " \o ToString(d.b) \o "}"

\* variant: the parts are joined without the separator
RECURSIVE Join_no_separator(_, _)
Join_no_separator(parts, sep) ==
    IF parts = <<>> THEN ""
    ELSE parts[1] \o Join_no_separator(Tail(parts), sep)

\* "\n".join(parts)
RECURSIVE Join(_, _)
Join(parts, sep) ==
    IF parts = <<>> THEN ""
    ELSE IF Len(parts) = 1 THEN parts[1]
    ELSE parts[1] \o sep \o Join(Tail(parts), sep)

NoActiveServerMsg == " No active server. Please to at least one server first"

CallNotice(tool_name, server_id, tool_args) ==
    "[Calling tool " \o tool_name \o " on server " \o server_id
        \o " with args " \o PyRepr(tool_args) \o "]"

ErrorNotice(tool_name) ==
    "Error: Tool " \o tool_name \o " not found on any connected server."

\* the description of a tool in the catalog sent to the model
QualifiedDescription(server_id, tool) ==
    "[Server: " \o server_id \o "] " \o tool.description

\* tool_dict of one tool of one server
ToolDict(server_id, tool) ==
    [name |-> tool.name,
     description |-> QualifiedDescription(server_id, tool),
     input_schema |-> tool.inputSchema]

\* all_tools after the inner loop over one server's tools
ExtendCatalog(catalog, server_id, tools) ==
    catalog \o [j \in 1..Len(tools) |-> ToolDict(server_id, tools[j])]

\* variant: a name already in the map keeps its first owner
ExtendOwners_first_wins(owners, server_id, tools) ==
    [n \in DOMAIN owners \cup { tools[j].name : j \in 1..Len(tools) } |->
        IF n \in DOMAIN owners THEN owners[n] ELSE server_id]

\* server_tool_map after the inner loop over one server's tools
ExtendOwners(owners, server_id, tools) ==
    [n \in DOMAIN owners \cup { tools[j].name : j \in 1..Len(tools) } |->
        IF \E j \in 1..Len(tools) : tools[j].name = n THEN server_id ELSE owners[n]]

\* the list object assistant_message_content, as the content of a message
AmcRef == "<assistant_message_content>"

\* the messages as the model API serialises them when they are sent
Deref(msgs, amc) ==
    [i \in 1..Len(msgs) |->
        IF msgs[i].role = "assistant"
        THEN [role |-> "assistant", content |-> amc]
        ELSE msgs[i]]

ListToolsCall(conn) ==
    [session |-> conn.session, server_id |-> conn.server_id, method |-> "list_tools",
     name |-> "", args |-> <<>>]

\* variant: the tool is called on the connection of the current server
CallToolCall_current(conn, tool_name, tool_args) ==
    [session |-> servers[IndexOf(servers, current_server_id)].session,
     server_id |-> current_server_id, method |-> "call_tool",
     name |-> tool_name, args |-> tool_args]

\* ServerConnection.call_tool on the session of conn
CallToolCall(conn, tool_name, tool_args) ==
    [session |-> conn.session, server_id |-> conn.server_id, method |-> "call_tool",
     name |-> tool_name, args |-> tool_args]

\* a call on a session together with its outcome: whether it returned, and what
Outcome(call, ok, returned) == call @@ [ok |-> ok, returned |-> returned]

\* variant: the tool list cached on the connection is used, the answer is dropped
ListToolsResult_cached(conn, response_tools) == conn.tools

\* ServerConnection.list_tools: self.tools = response.tools; return self.tools
ListToolsResult(conn, response_tools) == response_tools

Raised(exc) == [op |-> "query", server_id |-> None, ret |-> "raise " \o exc, printed |-> <<>>]

Running == [op |-> "query", server_id |-> None, ret |-> "running", printed |-> <<>>]

(***************************************************************************)
(* MCPClient.process_query, from its entry to the loop over the servers.   *)
(***************************************************************************)
process_query(query) ==
    /\ pc = "idle"
    /\ UNCHANGED <<client, all_tools, server_tool_map, response, blocks, blk_i,
                   final_text, assistant_message_content, sent, calls>>
    /\ IF Falsy(current_server_id)
       THEN /\ out' = [op |-> "query", server_id |-> None, ret |-> NoActiveServerMsg,
                       printed |-> <<>>]
            /\ pc' = "done"
            /\ UNCHANGED <<messages, cat_i>>
       ELSE /\ messages' = <<[role |-> "user", content |-> query]>>
            /\ cat_i' = 1
            /\ out' = Running
            /\ pc' = "catalog"

(***************************************************************************)
(* One iteration of the loop over self.servers.items(): the live           *)
(* list_tools of one server, then its tools added to the catalog.          *)
(***************************************************************************)
catalog_step(ok, tools) ==
    /\ pc = "catalog"
    /\ cat_i <= Len(servers)
    /\ LET conn == servers[cat_i]
           listed == ListToolsResult(conn, tools)
       IN  /\ calls' = Append(calls, Outcome(ListToolsCall(conn), ok, tools))
           /\ IF ok
              THEN /\ servers' = [servers EXCEPT ![cat_i].tools = listed]
                   /\ all_tools' = ExtendCatalog(all_tools, conn.server_id, listed)
                   /\ server_tool_map' =
                          ExtendOwners(server_tool_map, conn.server_id, listed)
                   /\ cat_i' = cat_i + 1
                   /\ UNCHANGED <<out, pc>>
              ELSE /\ out' = Raised("TransportError")
                   /\ pc' = "raised"
                   /\ UNCHANGED <<servers, all_tools, server_tool_map, cat_i>>
    /\ UNCHANGED <<current_server_id, exit_stack, stdio, session, spawned, messages,
                   response, blocks, blk_i, final_text, assistant_message_content, sent>>

(***************************************************************************)
(* The initial model call, and the start of the loop over its blocks.      *)
(***************************************************************************)
first_model_call(ok, content) ==
    /\ pc = "catalog"
    /\ cat_i > Len(servers)
    /\ sent' = Append(sent, Deref(messages, assistant_message_content))
    /\ IF ok
       THEN /\ response' = content
            /\ blocks' = content
            /\ blk_i' = 1
            /\ pc' = "blocks"
            /\ UNCHANGED out
       ELSE /\ out' = Raised("ModelApiError")
            /\ pc' = "raised"
            /\ UNCHANGED <<response, blocks, blk_i>>
    /\ UNCHANGED <<client, messages, all_tools, server_tool_map, cat_i, final_text,
                   assistant_message_content, calls>>

(***************************************************************************)
(* One iteration of the loop over the blocks of the first response.        *)
(***************************************************************************)
\* variant: the loop stays at the block it has handled
NextBlock_same(i) == i

\* for content in response.content: the loop goes on to the next block
NextBlock(i) == i + 1

\* a text block
handle_text(content) ==
    /\ final_text' = Append(final_text, content.text)
    /\ assistant_message_content' = Append(assistant_message_content, content)
    /\ blk_i' = NextBlock(blk_i)
    /\ UNCHANGED <<client, out, pc, messages, all_tools, server_tool_map, cat_i,
                   response, blocks, sent, calls>>

\* variant: an unknown tool ends the query with an error
handle_unknown_tool_fatal(content) ==
    /\ out' = Raised("UnknownToolError")
    /\ pc' = "raised"
    /\ UNCHANGED <<client, locals>>

\* a tool_use block whose name is not in server_tool_map
handle_unknown_tool(content) ==
    /\ final_text' = Append(final_text, ErrorNotice(content.name))
    /\ blk_i' = NextBlock(blk_i)
    /\ UNCHANGED <<client, out, pc, messages, all_tools, server_tool_map, cat_i,
                   response, blocks, assistant_message_content, sent, calls>>

\* a tool_use block whose name is in server_tool_map: call_ok and result are
\* the outcome of call_tool, model_ok and next_content that of the model call
handle_known_tool(content, call_ok, result, model_ok, next_content) ==
    LET server_id == server_tool_map[content.name]
        server == servers[IndexOf(servers, server_id)]
        text1 == Append(final_text,
                        CallNotice(content.name, server_id, content.input))
        amc1 == Append(assistant_message_content, content)
        msgs1 == messages
                 \o << [role |-> "assistant", content |-> AmcRef],
                       [role |-> "user",
                        content |-> << [type |-> "tool_result",
                                        tool_use_id |-> content.id,
                                        content |-> result] >>] >>
    IN  /\ calls' = Append(calls, Outcome(CallToolCall(server, content.name,
                                                       content.input),
                                          call_ok, result))
        /\ UNCHANGED <<client, all_tools, server_tool_map, cat_i, blocks>>
        /\ IF ~call_ok
           THEN /\ out' = Raised("TransportError")
                /\ pc' = "raised"
                /\ UNCHANGED <<messages, response, blk_i, final_text,
                               assistant_message_content, sent>>
           ELSE /\ assistant_message_content' = amc1
                /\ messages' = msgs1
                /\ sent' = Append(sent, Deref(msgs1, amc1))
                /\ IF ~model_ok
                   THEN /\ out' = Raised("ModelApiError")
                        /\ pc' = "raised"
                        /\ final_text' = text1
                        /\ UNCHANGED <<response, blk_i>>
                   ELSE /\ response' = next_content
                        /\ IF next_content = <<>>
                           THEN /\ out' = Raised("IndexError")
                                /\ pc' = "raised"
                                /\ final_text' = text1
                                /\ UNCHANGED blk_i
                           ELSE IF next_content[1].type # "text"
                           THEN /\ out' = Raised("AttributeError")
                                /\ pc' = "raised"
                                /\ final_text' = text1
                                /\ UNCHANGED blk_i
                           ELSE /\ final_text' = Append(text1, next_content[1].text)
                                /\ blk_i' = NextBlock(blk_i)
                                /\ UNCHANGED <<out, pc>>

\* the outcomes of the two external calls made for a known tool
KnownToolOutcomes ==
    { [call_ok |-> FALSE, result |-> "", model_ok |-> FALSE, next_content |-> <<>>] }
    \cup { [call_ok |-> TRUE, result |-> r, model_ok |-> FALSE, next_content |-> <<>>] :
              r \in ToolResults }
    \cup { [call_ok |-> TRUE, result |-> r, model_ok |-> TRUE, next_content |-> c] :
              r \in ToolResults, c \in Responses(Len(sent) + 1) }

handle_block ==
    /\ pc = "blocks"
    /\ blk_i <= Len(blocks)
    /\ LET content == blocks[blk_i]
       IN  IF content.type = "text"
           THEN handle_text(content)
           ELSE IF content.name \in DOMAIN server_tool_map
           THEN \E o \in KnownToolOutcomes :
                    handle_known_tool(content, o.call_ok, o.result, o.model_ok,
                                      o.next_content)
           ELSE handle_unknown_tool(content)

(***************************************************************************)
(* return "\n".join(final_text)                                            *)
(***************************************************************************)
return_answer ==
    /\ pc = "blocks"
    /\ blk_i > Len(blocks)
    /\ out' = [op |-> "query", server_id |-> None, ret |-> Join(final_text, "\n"),
               printed |-> <<>>]
    /\ pc' = "done"
    /\ UNCHANGED <<client, locals>>

(***************************************************************************)
(* process_query has returned or raised: its frame is discarded.           *)
(***************************************************************************)
query_end ==
    /\ pc \in {"done", "raised"}
    /\ pc' = "idle"
    /\ messages' = <<>>
    /\ all_tools' = <<>>
    /\ server_tool_map' = <<>>
    /\ cat_i' = 0
    /\ response' = <<>>
    /\ blocks' = <<>>
    /\ blk_i' = 0
    /\ final_text' = <<>>
    /\ assistant_message_content' = <<>>
    /\ sent' = <<>>
    /\ calls' = <<>>
    /\ UNCHANGED <<client, out>>

(***************************************************************************)
(* The operations as a caller of the MCPClient object makes them: the      *)
(* program around the object, when there is one, stays where it is.        *)
(***************************************************************************)
Connect ==
    /\ \E sid \in ServerIds, path \in ScriptPaths, o \in ConnectOutcomes :
           connect_to_server(sid, path, o.fail_at, o.tools)
    /\ UNCHANGED prog

Switch ==
    /\ \E sid \in ServerIds : switch_server(sid)
    /\ UNCHANGED prog

ListServers == list_servers /\ UNCHANGED prog

Disconnect ==
    /\ \E sid \in ServerIds : disconnected_server(sid)
    /\ UNCHANGED prog

Query ==
    /\ \E q \in Queries : process_query(q)
    /\ UNCHANGED prog

CatalogStep ==
    /\ \/ catalog_step(FALSE, <<>>)
       \/ \E tl \in ToolLists : catalog_step(TRUE, tl)
    /\ UNCHANGED prog

FirstModelCall ==
    /\ \/ first_model_call(FALSE, <<>>)
       \/ \E content \in Responses(1) : first_model_call(TRUE, content)
    /\ UNCHANGED prog

HandleBlock == handle_block /\ UNCHANGED prog

ReturnAnswer == return_answer /\ UNCHANGED prog

QueryEnd == query_end /\ UNCHANGED prog

\* no program runs around the object: its methods are called directly
NoProgram ==
    /\ main_pc = "api"
    /\ argv = <<>>
    /\ arg_i = 0
    /\ attempted = <<>>
    /\ ending = [cause |-> "none", code |-> 0]
    /\ released = {}

\* the object after construction, used by a caller other than main
InitObject == Init /\ NoProgram

Next ==
    \/ Connect
    \/ Switch
    \/ ListServers
    \/ Disconnect
    \/ Query
    \/ CatalogStep
    \/ FirstModelCall
    \/ HandleBlock
    \/ ReturnAnswer
    \/ QueryEnd

Spec == InitObject /\ [][Next]_vars

(***************************************************************************)
(* The client under every order of its operations, each query followed up  *)
(* to its first model call, which the model API refuses.  What the model   *)
(* answers is read by process_query alone and written to no field of the   *)
(* client, so the registry, the exit stack and the catalog go through the  *)
(* same values as under Spec.                                              *)
(***************************************************************************)
ModelCallRefused == first_model_call(FALSE, <<>>) /\ UNCHANGED prog

NextRegistry ==
    \/ Connect
    \/ Switch
    \/ ListServers
    \/ Disconnect
    \/ Query
    \/ CatalogStep
    \/ ModelCallRefused
    \/ QueryEnd

SpecRegistry == InitObject /\ [][NextRegistry]_vars

(***************************************************************************)
(* The client under every order of its operations, as SpecRegistry, the    *)
(* server ids being any str a caller or the command line may pass: the     *)
(* empty string is one of them.                                            *)
(***************************************************************************)
AnyServerIds == ServerIds \cup {""}

ConnectAny ==
    /\ \E sid \in AnyServerIds, path \in ScriptPaths, o \in ConnectOutcomes :
           connect_to_server(sid, path, o.fail_at, o.tools)
    /\ UNCHANGED prog

SwitchAny ==
    /\ \E sid \in AnyServerIds : switch_server(sid)
    /\ UNCHANGED prog

DisconnectAny ==
    /\ \E sid \in AnyServerIds : disconnected_server(sid)
    /\ UNCHANGED prog

NextAnyId ==
    \/ ConnectAny
    \/ SwitchAny
    \/ ListServers
    \/ DisconnectAny
    \/ Query
    \/ CatalogStep
    \/ ModelCallRefused
    \/ QueryEnd

SpecAnyId == InitObject /\ [][NextAnyId]_vars

(***************************************************************************)
(* The program: main() of src/main.py and MCPClient.chat_loop.             *)
(***************************************************************************)
\* the (server_id, script_path) pairs a command line may hold
ArgPairs == ServerIds \X ScriptPaths

\* the arguments of a list of pairs, one after the other
Flatten(pairs) ==
    [i \in 1..(2 * Len(pairs)) |->
        IF i % 2 = 1 THEN pairs[(i + 1) \div 2][1] ELSE pairs[i \div 2][2]]

\* sys.argv: the program name, then up to MaxArgs arguments, whole pairs or
\* whole pairs and a server id without its path
Argvs ==
    { <<"main.py">> \o Flatten(ps) : ps \in SeqsUpTo(ArgPairs, MaxArgs \div 2) }
    \cup { <<"main.py">> \o Flatten(ps) \o <<sid>> :
              ps \in SeqsUpTo(ArgPairs, (MaxArgs - 1) \div 2), sid \in ServerIds }

\* sys.argv[i]
ArgAt(i) == argv[i + 1]

\* the process starts: MCPClient() is as Init leaves it.  ending.code is the
\* exit status of the interpreter: 1 by sys.exit(1), 0 when main() returns,
\* 1 on an uncaught exception, 130 on KeyboardInterrupt
InitMain ==
    /\ main_pc = "start"
    /\ argv \in Argvs
    /\ arg_i = 0
    /\ attempted = <<>>
    /\ ending = [cause |-> "none", code |-> 0]
    /\ released = {}

\* variant: only an incomplete pair is refused
TooFewArgs_never(n) == FALSE

\* if len(sys.argv) < 3
TooFewArgs(n) == n < 3

\* if len(sys.argv) % 2 != 1
IncompletePair(n) == n % 2 # 1

\* main(), up to the loop over the pairs: the two checks of the arguments
main_parse ==
    /\ main_pc = "start"
    /\ IF TooFewArgs(Len(argv)) \/ IncompletePair(Len(argv))
       THEN /\ main_pc' = "exited"
            /\ ending' = [cause |-> "usage", code |-> 1]
            /\ out' = [op |-> "main", server_id |-> None, ret |-> "exit 1",
                       printed |-> IF TooFewArgs(Len(argv)) THEN <<"Usage">>
                                   ELSE <<"Error: Each server must have both">>]
            /\ UNCHANGED arg_i
       ELSE /\ main_pc' = IF 1 < Len(argv) THEN "connect" ELSE "loop"
            /\ arg_i' = 1
            /\ UNCHANGED <<ending, out>>
    /\ UNCHANGED <<client, locals, pc, argv, attempted, released>>

\* one iteration of the loop over the pairs: nothing catches what the connect
\* raises, so it leaves the try block for the finally clause
main_connect(fail_at, tools) ==
    /\ main_pc = "connect"
    /\ connect_to_server(ArgAt(arg_i), ArgAt(arg_i + 1), fail_at, tools)
    /\ attempted' = Append(attempted, ArgAt(arg_i))
    /\ IF out'.ret # "None"
       THEN /\ main_pc' = "finally"
            /\ ending' = [cause |-> "exception", code |-> 1]
            /\ UNCHANGED arg_i
       ELSE /\ arg_i' = arg_i + 2
            /\ main_pc' = IF arg_i + 2 < Len(argv) THEN "connect" ELSE "loop"
            /\ UNCHANGED ending
    /\ UNCHANGED <<argv, released>>

\* chat_loop is at input()
AtPrompt == main_pc = "loop" /\ pc = "idle"

\* "/quit": break, chat_loop returns
loop_quit ==
    /\ AtPrompt
    /\ main_pc' = "finally"
    /\ ending' = [cause |-> "quit", code |-> 0]
    /\ out' = [op |-> "quit", server_id |-> None, ret |-> "None", printed |-> <<>>]
    /\ UNCHANGED <<client, locals, pc, argv, arg_i, attempted, released>>

\* the user interrupts input(): KeyboardInterrupt is not an Exception, the
\* except clause of the loop lets it pass
loop_interrupt ==
    /\ AtPrompt
    /\ main_pc' = "finally"
    /\ ending' = [cause |-> "interrupt", code |-> 130]
    /\ out' = [op |-> "input", server_id |-> None, ret |-> "raise KeyboardInterrupt",
               printed |-> <<>>]
    /\ UNCHANGED <<client, locals, pc, argv, arg_i, attempted, released>>

\* "/disconnect <id>": self.disconnect_server is not an attribute of MCPClient
\* (the method is named disconnected_server); the AttributeError is caught by
\* the except clause of the loop and printed
loop_disconnect(server_id) ==
    /\ AtPrompt
    /\ out' = [op |-> "disconnect", server_id |-> server_id,
               ret |-> "raise AttributeError",
               printed |-> <<"Error: 'MCPClient' object has no attribute 'disconnect_server'">>]
    /\ UNCHANGED <<client, locals, pc, prog>>

\* a line that starts with "/" and is no complete command
loop_invalid ==
    /\ AtPrompt
    /\ out' = [op |-> "invalid", server_id |-> None, ret |-> "None",
               printed |-> <<"Invalid command format">>]
    /\ UNCHANGED <<client, locals, pc, prog>>

\* variant: only the connections stored in the registry are closed
ClosedByAclose_entries(stack, srv) == EntryTransports(srv)

\* the transports whose contexts exit_stack.aclose() exits
ClosedByAclose(stack, srv) ==
    { stack[i].h : i \in { j \in 1..Len(stack) : stack[j].ctx = "stdio_client" } }

\* finally: await client.cleanup(), then the process ends
cleanup ==
    /\ main_pc = "finally"
    /\ released' = released \cup ClosedByAclose(exit_stack, servers)
    /\ exit_stack' =
           SelectSeq(exit_stack,
                     LAMBDA c : c.h \notin ClosedByAclose(exit_stack, servers))
    /\ main_pc' = "exited"
    /\ UNCHANGED <<servers, current_server_id, stdio, session, spawned, out, pc,
                   locals, argv, arg_i, attempted, ending>>

MainConnect == \E o \in ConnectOutcomes : main_connect(o.fail_at, o.tools)

LoopConnect == main_pc = "loop" /\ Connect

LoopSwitch == main_pc = "loop" /\ Switch

LoopList == main_pc = "loop" /\ ListServers

LoopDisconnect == \E sid \in ServerIds : loop_disconnect(sid)

LoopQuery == main_pc = "loop" /\ Query

\* the program, each query followed up to its first model call, which the
\* model API refuses: the loop prints the error and goes back to input()
NextMain ==
    \/ main_parse
    \/ MainConnect
    \/ LoopConnect
    \/ LoopSwitch
    \/ LoopList
    \/ LoopDisconnect
    \/ loop_invalid
    \/ LoopQuery
    \/ CatalogStep
    \/ ModelCallRefused
    \/ QueryEnd
    \/ loop_quit
    \/ loop_interrupt
    \/ cleanup

\* the process after MCPClient() of main()
InitProgram == Init /\ InitMain

SpecMain == InitProgram /\ [][NextMain]_vars

(***************************************************************************)
(* The steps of the operations, as seen from the state before and after.   *)
(* While process_query is not running (pc = "idle") every operation        *)
(* writes its own record to out.                                           *)
(***************************************************************************)
ConnectStep(sid) ==
    pc = "idle" /\ out'.op = "connect" /\ out'.server_id = sid

DisconnectStep(sid) ==
    pc = "idle" /\ out'.op = "disconnect" /\ out'.server_id = sid

QueryEntryStep == pc = "idle" /\ pc' # "idle"

(***************************************************************************)
(* C1: in every state, whatever connect, switch and disconnect operations  *)
(* were made and however they ended, current_server_id is None or a key    *)
(* of self.servers.                                                        *)
(***************************************************************************)
C1_CurrentIsUnsetOrRegistered ==
    current_server_id = None \/ current_server_id \in Keys(servers)

\* a connect aborted by the initial list_tools, on an empty registry, has made
\* its own server current
C1_Witness ==
    /\ out.op = "connect"
    /\ out.ret = "raise TransportError"
    /\ Len(servers) = 1
    /\ current_server_id = out.server_id

(***************************************************************************)
(* C6: a connect with a server id that is already a key of self.servers    *)
(* prints the already-exists status and changes neither the entries (the   *)
(* stored connection, its session and its cached tools), nor               *)
(* current_server_id, nor the exit stack: no transport is opened.          *)
(***************************************************************************)
C6_DuplicateConnectChangesNothing ==
    [][\A sid \in ServerIds :
          (ConnectStep(sid) /\ sid \in Keys(servers)) =>
              /\ out'.printed = <<"already exists">>
              /\ out'.ret = "None"
              /\ servers' = servers
              /\ current_server_id' = current_server_id
              /\ exit_stack' = exit_stack
              /\ spawned' = spawned]_vars

\* a duplicate connect was answered while two servers are connected
C6_Witness ==
    /\ out.op = "connect"
    /\ out.printed = <<"already exists">>
    /\ out.server_id \in Keys(servers)
    /\ Len(servers) = 2

(***************************************************************************)
(* C7: a disconnect of the current server makes a remaining entry current  *)
(* when one remains and sets current_server_id to None when none does; a   *)
(* disconnect of another server leaves current_server_id as it was; a      *)
(* disconnect of an unknown id returns False and leaves the registry as    *)
(* it was.                                                                 *)
(***************************************************************************)
C7_DisconnectKeepsACurrent ==
    [][\A sid \in ServerIds :
          DisconnectStep(sid) =>
              IF sid \notin Keys(servers)
              THEN /\ out'.ret = "False"
                   /\ servers' = servers
                   /\ current_server_id' = current_server_id
              ELSE /\ out'.ret = "True"
                   /\ IF sid # current_server_id
                      THEN current_server_id' = current_server_id
                      ELSE IF Keys(servers) \ {sid} = {}
                      THEN current_server_id' = None
                      ELSE current_server_id' \in Keys(servers) \ {sid}]_vars

\* a disconnect has left one server, which is current
C7_Witness ==
    /\ out.op = "disconnect"
    /\ out.ret = "True"
    /\ Len(servers) = 1
    /\ current_server_id = servers[1].server_id
    /\ out.server_id # current_server_id

(***************************************************************************)
(* C9: a connect that ends with a transport error, at whichever external   *)
(* call, leaves the entries and current_server_id as they were before it.  *)
(***************************************************************************)
C9_FailedConnectLeavesRegistry ==
    [][\A sid \in ServerIds :
          (ConnectStep(sid) /\ out'.ret = "raise TransportError") =>
              /\ servers' = servers
              /\ current_server_id' = current_server_id]_vars

(***************************************************************************)
(* C10: after a disconnect that returned True the open transports are      *)
(* exactly the transports of the connections still in the registry.        *)
(***************************************************************************)
C10_DisconnectReleasesTransport ==
    [][\A sid \in ServerIds :
          (DisconnectStep(sid) /\ out'.ret = "True") =>
              OpenTransports' = EntryTransports(servers')]_vars

(***************************************************************************)
(* Observations of one run of process_query.                               *)
(***************************************************************************)
\* the loop over self.servers.items() has ended
CatalogBuilt ==
    /\ pc \in {"catalog", "blocks", "done", "raised"}
    /\ cat_i > Len(servers)

\* the tool_use blocks of a response
ToolUses(content) == { k \in 1..Len(content) : content[k].type = "tool_use" }

\* a tool-result message for correlation id cid is in the conversation
Answered(cid) ==
    \E i \in 2..Len(messages) :
        /\ messages[i].role = "user"
        /\ messages[i].content[1].tool_use_id = cid

\* the fragments of final_text follow the blocks of the first response: a text
\* block gives its text, a tool_use block of a known tool gives the call notice
\* and then the leading text of the model's next response
RECURSIVE FollowsBlocks(_, _)
FollowsBlocks(text, content) ==
    IF content = <<>> THEN text = <<>>
    ELSE IF text = <<>> THEN FALSE
    ELSE IF content[1].type = "text"
    THEN /\ text[1] = content[1].text
         /\ FollowsBlocks(Tail(text), Tail(content))
    ELSE /\ Len(text) >= 2
         /\ content[1].name \in DOMAIN server_tool_map
         /\ text[1] = "[Calling tool " \o content[1].name \o " on server "
                          \o server_tool_map[content[1].name]
                          \o " with args {'a': 2, 'b': 3}]"
         /\ text[2] \in Texts
         /\ FollowsBlocks(Tail(Tail(text)), Tail(content))

\* the fragments, each but the last followed by a newline
RECURSIVE NewlineJoined(_)
NewlineJoined(text) ==
    IF text = <<>> THEN ""
    ELSE IF Tail(text) = <<>> THEN text[1]
    ELSE text[1] \o "\n" \o NewlineJoined(Tail(text))

\* the position of the last tool_use block of a response that has one
LastToolUse(content) ==
    CHOOSE m \in ToolUses(content) : \A n \in ToolUses(content) : n <= m

\* every tool the first response asks for is in server_tool_map
AllToolsKnown ==
    \A k \in ToolUses(blocks) : blocks[k].name \in DOMAIN server_tool_map

\* the example of the specification: calc owns add, the first response is one
\* tool_use for add, the next response is the text "The result is 5"
CalcExample ==
    /\ pc = "done"
    /\ Len(blocks) = 1
    /\ blocks[1].type = "tool_use"
    /\ blocks[1].name = "add"
    /\ "add" \in DOMAIN server_tool_map
    /\ server_tool_map["add"] = "calc"
    /\ response = <<[type |-> "text", text |-> "The result is 5"]>>

(***************************************************************************)
(* C2: when process_query returns, every tool_use block of the model       *)
(* response last received that names a tool of the catalog has been        *)
(* dispatched and answered by a tool-result message: the query does not    *)
(* return on a response that still asks for a tool.                        *)
(***************************************************************************)
C2_ReturnsOnlyWithoutOpenToolRequest ==
    pc = "done" =>
        \A k \in ToolUses(response) :
            response[k].name \in DOMAIN server_tool_map => Answered(response[k].id)

(***************************************************************************)
(* C3 as stated: in the example of the specification the answer returned   *)
(* is exactly "The result is 5".                                           *)
(***************************************************************************)
C3_AnswerIsModelTextOnly ==
    CalcExample => out.ret = "The result is 5"

(***************************************************************************)
(* C3 as amended: when every tool asked for is known, the answer returned  *)
(* is the fragments joined by newlines, the fragments being, in the order  *)
(* of the blocks of the first response, the text of each text block and,   *)
(* for each tool_use block, the call notice followed by the leading text   *)
(* of the model's response to the tool result; in the example the answer   *)
(* is the call notice, a newline and "The result is 5".                    *)
(***************************************************************************)
C3_AnswerIsNoticesAndTextsJoined ==
    (pc = "done" /\ sent # <<>> /\ AllToolsKnown) =>
        /\ FollowsBlocks(final_text, blocks)
        /\ out.ret = NewlineJoined(final_text)
        /\ ToolUses(blocks) # {} =>
               final_text[Len(final_text) - (Len(blocks) - LastToolUse(blocks))]
                   = response[1].text
        /\ CalcExample =>
               out.ret = "[Calling tool add on server calc with args {'a': 2, 'b': 3}]"
                             \o "\n" \o "The result is 5"

C3_Witness == CalcExample

Exposes(i, x) == \E j \in 1..Len(servers[i].tools) : servers[i].tools[j].name = x

C5_LastRegisteredWins ==
    CatalogBuilt =>
        \A a \in 1..Len(servers), b \in 1..Len(servers), x \in ToolNames :
            (/\ a < b
             /\ Exposes(a, x)
             /\ Exposes(b, x)
             /\ \A c \in 1..Len(servers) : c > b => ~Exposes(c, x)) =>
                /\ x \in DOMAIN server_tool_map
                /\ server_tool_map[x] = servers[b].server_id
                /\ \E p \in 1..Len(all_tools), q \in 1..Len(all_tools) :
                       /\ p < q
                       /\ all_tools[p].name = x
                       /\ all_tools[q].name = x
                       /\ \E t \in {ToolAdd, ToolX} :
                              all_tools[p].description =
                                  "[Server: " \o servers[a].server_id \o "] "
                                      \o t.description
                       /\ \E t \in {ToolAdd, ToolX} :
                              all_tools[q].description =
                                  "[Server: " \o servers[b].server_id \o "] "
                                      \o t.description
                       /\ all_tools[p].description # all_tools[q].description

\* the catalog is built over two servers that both expose x
C5_Witness ==
    /\ CatalogBuilt
    /\ Len(servers) = 2
    /\ Exposes(1, "x")
    /\ Exposes(2, "x")
    /\ server_tool_map["x"] = servers[2].server_id

(***************************************************************************)
(* C8: a query entered while self.servers is empty returns the             *)
(* no-active-server message at once: no history is sent to the model, no   *)
(* call is made on a server session and the client is left as it was.      *)
(***************************************************************************)
C8_EmptyRegistryRejectsQuery ==
    [][(QueryEntryStep /\ servers = <<>>) =>
           /\ pc' = "done"
           /\ out'.op = "query"
           /\ out'.ret = " No active server. Please to at least one server first"
           /\ sent' = <<>>
           /\ calls' = <<>>
           /\ servers' = servers
           /\ current_server_id' = current_server_id
           /\ exit_stack' = exit_stack]_vars

\* the message was returned on an empty registry that has had a server
C8_Witness ==
    /\ pc = "done"
    /\ out.ret = NoActiveServerMsg
    /\ servers = <<>>
    /\ spawned > 0
    /\ sent = <<>>
    /\ calls = <<>>

(***************************************************************************)
(* Observations of one run of the program.                                 *)
(***************************************************************************)
\* the process has ended
Terminated == main_pc = "exited"

\* the transports opened since the process started
Opened == 1..spawned

(***************************************************************************)
(* C11: when the program has terminated, on whichever path (after /quit,   *)
(* after an error that left the startup connects, after an interrupt that  *)
(* left the interactive loop, or by the exit of the argument checks),      *)
(* every transport that was opened has been released and the exit stack    *)
(* holds none.                                                             *)
(***************************************************************************)
C11_TerminatedReleasesEveryTransport ==
    Terminated =>
        /\ released = Opened
        /\ OpenTransports = {}

\* the program has ended on an error of the second startup connect, whose
\* transport was opened and is in no entry of the registry
C11_Witness ==
    /\ Terminated
    /\ ending.cause = "exception"
    /\ spawned = 2
    /\ Len(servers) = 1
    /\ released = {1, 2}

\* the exceptions the external calls and the code of the client raise
Exceptions ==
    { "raise ValueError", "raise TransportError", "raise ModelApiError",
      "raise AttributeError", "raise IndexError" }

(***************************************************************************)
(* C12: once the arguments are parsed, a step of the startup connects or   *)
(* of the interactive loop that ends with an error leaves the program      *)
(* running: the error is reported and the program goes on to the next      *)
(* pair or to the next input; it does not leave for the finally clause.    *)
(***************************************************************************)
C12_NoErrorEndsTheProgram ==
    [][(/\ main_pc \in {"connect", "loop"}
        /\ out'.ret \in Exceptions) =>
           main_pc' \in {"connect", "loop"}]_vars

(***************************************************************************)
(* C13: the command "/disconnect <id>", entered at the prompt with id a    *)
(* key of self.servers, removes the entry of id, and when id was current   *)
(* leaves current_server_id a remaining key or None.                       *)
(***************************************************************************)
C13_DisconnectCommandRemovesEntry ==
    [][\A sid \in ServerIds :
          (/\ main_pc = "loop"
           /\ DisconnectStep(sid)
           /\ sid \in Keys(servers)) =>
              /\ sid \notin Keys(servers')
              /\ sid = current_server_id =>
                     \/ current_server_id' = None
                     \/ current_server_id' \in Keys(servers')]_vars

\* the server ids of the pairs of the command line, in argument order
PairIds == [j \in 1..((Len(argv) - 1) \div 2) |-> argv[2 * j]]

\* the argument count, program name included, is 1 + 2k for some k >= 0
OddArgc == Len(argv) % 2 = 1

(***************************************************************************)
(* C14 as stated: the program exits by the argument checks only when the   *)
(* argument count is not of the form 1 + 2k; with a count of that form,    *)
(* for every k >= 0, it goes on to the connects, and when it is in the     *)
(* interactive loop it has called connect for the k pairs in argument      *)
(* order.                                                                  *)
(***************************************************************************)
C14_EveryOddArgcIsAccepted ==
    /\ (main_pc # "start" /\ ~OddArgc) =>
           /\ Terminated
           /\ ending = [cause |-> "usage", code |-> 1]
           /\ attempted = <<>>
    /\ OddArgc =>
           /\ ending.cause # "usage"
           /\ main_pc = "loop" => attempted = PairIds

(***************************************************************************)
(* C14 as amended: the program exits with code 1 by the argument checks,   *)
(* having attempted no connection, when the argument count is less than 3  *)
(* (so also with no pair at all, k = 0) or is even; otherwise (k >= 1) it  *)
(* calls connect for the pairs in argument order, one after the other, a   *)
(* connect that raises ends the startup for the finally clause, and the    *)
(* interactive loop is entered only from the last connect, when all k      *)
(* connects have returned: every id of the pairs is then a key of          *)
(* self.servers and the id of the first pair is current.                   *)
(***************************************************************************)
C14_StartupConnectsThenLoop ==
    [][/\ main_pc = "start" =>
              IF Len(argv) < 3 \/ ~OddArgc
              THEN /\ main_pc' = "exited"
                   /\ ending' = [cause |-> "usage", code |-> 1]
                   /\ attempted' = <<>>
                   /\ spawned' = 0
              ELSE /\ main_pc' = "connect"
                   /\ attempted' = <<>>
       /\ main_pc = "connect" =>
              /\ attempted' = SubSeq(PairIds, 1, Len(attempted) + 1)
              /\ out'.op = "connect"
              /\ out'.server_id = PairIds[Len(attempted) + 1]
              /\ out'.ret # "None" => main_pc' = "finally"
       /\ (main_pc # "loop" /\ main_pc' = "loop") =>
              /\ main_pc = "connect"
              /\ attempted' = PairIds
              /\ \A j \in 1..Len(PairIds) : PairIds[j] \in Keys(servers')
              /\ current_server_id' = PairIds[1]
              /\ servers'[1].server_id = PairIds[1]]_vars

\* the loop was entered after the connects of two pairs with different ids,
\* the first pair being current
C14_Witness ==
    /\ main_pc = "loop"
    /\ out.op = "connect"
    /\ Len(argv) = 5
    /\ attempted = <<argv[2], argv[4]>>
    /\ argv[2] # argv[4]
    /\ Keys(servers) = {argv[2], argv[4]}
    /\ current_server_id = argv[2]
    /\ spawned = 2

(***************************************************************************)
(* Observations of the message histories sent to the model in one query.   *)
(***************************************************************************)
\* the positions of the assistant messages of a history
AssistantAt(h) == { i \in 1..Len(h) : h[i].role = "assistant" }

\* the positions of the tool-result messages of a history (the first message
\* is the query)
ResultAt(h) == { i \in 2..Len(h) : h[i].role = "user" }

\* the tool_use blocks of a history: message position and block position
Requests(h) ==
    UNION { { <<i, k>> : k \in ToolUses(h[i].content) } : i \in AssistantAt(h) }

\* the correlation id of a tool_use block of a history
RequestId(h, r) == h[r[1]].content[r[2]].id

\* a history in which requests and results are paired by correlation id
Paired(h) ==
    /\ \A r \in Requests(h) :
           /\ { q \in Requests(h) : RequestId(h, q) = RequestId(h, r) } = {r}
           /\ { j \in ResultAt(h) : h[j].content[1].tool_use_id = RequestId(h, r) }
                  = { r[1] + 1 }
    /\ \A j \in ResultAt(h) :
           Cardinality({ q \in Requests(h) :
                            RequestId(h, q) = h[j].content[1].tool_use_id }) = 1

\* a is the beginning of b
IsPrefix(a, b) == Len(a) <= Len(b) /\ SubSeq(b, 1, Len(a)) = a

(***************************************************************************)
(* C15: in every message history sent to the model within a query, each    *)
(* tool_use block of an assistant message occurs once in the history and   *)
(* is answered by exactly one tool-result message with its id, the message *)
(* directly after that assistant message, and each tool-result message     *)
(* answers exactly one tool_use block.                                     *)
(***************************************************************************)
C15_RequestsAndResultsArePaired ==
    \A n \in 1..Len(sent) : Paired(sent[n])

(***************************************************************************)
(* C16: the first history sent to the model in a query holds the user      *)
(* message of that query and nothing else, and every history sent earlier  *)
(* in the query is the beginning of every history sent later in it.        *)
(***************************************************************************)
C16_HistoryIsAppendOnly ==
    sent # <<>> =>
        /\ Len(sent[1]) = 1
        /\ sent[1][1].role = "user"
        /\ sent[1][1].content \in Queries
        /\ \A m \in 1..Len(sent), n \in 1..Len(sent) :
               m < n => IsPrefix(sent[m], sent[n])

(***************************************************************************)
(* Observations of the catalog.                                            *)
(***************************************************************************)
\* the catalog entries of the tool lists the first n list_tools calls of the
\* query returned, each described with the id of the server called
RECURSIVE CatalogOfReturns(_)
CatalogOfReturns(n) ==
    IF n = 0 THEN <<>>
    ELSE CatalogOfReturns(n - 1)
         \o [j \in 1..Len(calls[n].returned) |->
                [name |-> calls[n].returned[j].name,
                 description |-> "[Server: " \o calls[n].server_id \o "] "
                                     \o calls[n].returned[j].description,
                 input_schema |-> calls[n].returned[j].inputSchema]]

(***************************************************************************)
(* C17: once the catalog of a query is built, whichever server is          *)
(* current, list_tools was called in this query once on every connection   *)
(* of self.servers, in registry order, the catalog holds one entry for     *)
(* each tool of each list returned, servers in registry order and tools    *)
(* in the order returned, and the tool list cached on each connection is   *)
(* the list returned to that call.                                         *)
(***************************************************************************)
C17_CatalogIsLiveAndOrdered ==
    CatalogBuilt =>
        /\ Len(calls) >= Len(servers)
        /\ \A i \in 1..Len(servers) :
               /\ calls[i].method = "list_tools"
               /\ calls[i].session = servers[i].session
               /\ calls[i].server_id = servers[i].server_id
               /\ calls[i].ok
               /\ servers[i].tools = calls[i].returned
        /\ \A i \in 1..Len(calls) : i > Len(servers) => calls[i].method # "list_tools"
        /\ all_tools = CatalogOfReturns(Len(servers))

\* the catalog of three tools of two servers was sent while the second
\* server is current
C17_Witness ==
    /\ CatalogBuilt
    /\ Len(sent) = 1
    /\ Len(servers) = 2
    /\ current_server_id = servers[2].server_id
    /\ Len(servers[1].tools) = 2
    /\ Len(all_tools) = 3
    /\ all_tools[3].description = "[Server: " \o servers[2].server_id \o "] Do x"

\* the block the loop of process_query is at asks for a tool of the catalog
AtKnownToolRequest ==
    /\ pc = "blocks"
    /\ blk_i <= Len(blocks)
    /\ blocks[blk_i].type = "tool_use"
    /\ blocks[blk_i].name \in DOMAIN server_tool_map

ModelCalls == Len(sent)

\* the call_tool calls made so far in the query
ToolCalls == Cardinality({ i \in 1..Len(calls) : calls[i].method = "call_tool" })

\* an upper bound of the steps process_query has left: the servers not yet
\* listed, the first model call, the blocks not yet handled, the return and
\* the end of the frame
Remaining ==
    IF pc = "catalog" THEN (Len(servers) + 1 - cat_i) + MaxBlocks + 3
    ELSE IF pc = "blocks" THEN (Len(blocks) + 1 - blk_i) + 2
    ELSE IF pc \in {"done", "raised"} THEN 1
    ELSE 0

(***************************************************************************)
(* C19: a query terminates whatever the model answers: every step of a     *)
(* running process_query, each external call having returned or raised,    *)
(* lowers the number of steps left, and in every state the query has made  *)
(* at most one model call more than the first response has tool_use        *)
(* blocks and at most one call_tool per tool_use block of the first        *)
(* response, however many tools the later responses ask for.               *)
(***************************************************************************)
C19_QueryTerminates ==
    /\ [](/\ ModelCalls <= 1 + Cardinality(ToolUses(blocks))
          /\ ToolCalls <= Cardinality(ToolUses(blocks))
          /\ Len(blocks) <= MaxBlocks)
    /\ [][pc # "idle" => Remaining' < Remaining]_vars

\* a query has returned after two tool calls and three model calls, the last
\* response asking for a tool once more
C19_Witness ==
    /\ pc = "done"
    /\ ToolCalls = 2
    /\ ModelCalls = 3
    /\ ToolUses(response) # {}

\* a step of list_servers
ListStep == pc = "idle" /\ out'.op = "list"

(***************************************************************************)
(* C20: after any connect, switch and disconnect operations,               *)
(* current_server_id is None exactly when self.servers is empty; a plain   *)
(* query entered while self.servers has an entry is accepted (it goes on   *)
(* to build the catalog); and list_servers on a registry with entries      *)
(* prints one line for each entry, exactly one of them ACTIVE and every    *)
(* other CONNECTED, and changes nothing.                                   *)
(***************************************************************************)
C20_CurrentIsSetWhileConnected ==
    /\ []((current_server_id = None) <=> (servers = <<>>))
    /\ [][(QueryEntryStep /\ servers # <<>>) =>
              /\ pc' = "catalog"
              /\ out'.ret # NoActiveServerMsg]_vars
    /\ [][(ListStep /\ servers # <<>>) =>
              /\ Len(out'.printed) = Len(servers)
              /\ Cardinality({ i \in 1..Len(servers) :
                                  out'.printed[i].status = "ACTIVE" }) = 1
              /\ \A i \in 1..Len(servers) :
                     out'.printed[i].status \in {"ACTIVE", "CONNECTED"}
              /\ servers' = servers
              /\ current_server_id' = current_server_id
              /\ exit_stack' = exit_stack]_vars

=============================================================================
